---- MODULE Spec2Model ----
(***************************************************************************)
(* Model of github-pr-lifetime-metrics.  Two scripts share almost all of   *)
(* their code:                                                             *)
(*   "lifetime" : src/unnamed/part_000 (per-repository window, three       *)
(*                metric lists, review-cycle time)                         *)
(*   "fixed"    : src/main.ts (one fixed window, two metric lists, a       *)
(*                404-tolerant listing loop in main)                       *)
(* The GitHub API is the environment: every fetch is answered by a         *)
(* nondeterministically chosen response.  Timestamps are small integers    *)
(* (seconds).                                                              *)
(***************************************************************************)
EXTENDS Integers, Sequences, FiniteSets, TLC

VARIABLES
    variant,            \* which script runs: "lifetime" or "fixed"
    token,              \* process.env.GITHUB_TOKEN is set
    pc,                 \* position of the script
    repoIdx,            \* index of the for..of loop over repositories
    url,                \* let url: string | null
    allPullRequests,    \* getGitHubPrMetrics: const allPullRequests
    prIdx,              \* index of the for..of loop over pull requests
    reviewTimes, mergeTimes, reviewCycleTimes,
    startDate, endDate,
    mainPullRequests,   \* main.ts main: const allPullRequests
    detailedMetrics,    \* main.ts main: const detailedMetrics
    reviewResponse,     \* const reviewResponse of the last loop iteration
    requests,           \* number of HTTP requests issued so far
    pages,              \* exchanges of the most recent while (url) loop
    served,             \* pull-request records the API has served so far
    logs,               \* console.log lines
    errors,             \* console.error lines
    printed,            \* per-repository averages written by console.log
    exitCode,           \* process exit code, None while running
    timeList, avgResult \* calculateAverageTime: argument and result

vars == <<variant, token, pc, repoIdx, url, allPullRequests, prIdx,
          reviewTimes, mergeTimes, reviewCycleTimes, startDate, endDate,
          mainPullRequests, detailedMetrics, reviewResponse, requests, pages,
          served, logs, errors, printed, exitCode, timeList, avgResult>>

\* optional values (null / undefined): None or Some(x)
None == << >>
Some(x) == <<x>>
Get(o) == o[1]

(***************************************************************************)
(* Bounds of the model and configuration.                                  *)
(***************************************************************************)
\* pull-request records the API serves in one run
MaxPRs == 2
\* longest list handed to calculateAverageTime in SpecAvg
MaxLen == 3

\* const repositories: string[] (edited before each run; README example)
repositories == <<"repo1", "repo2">>

\* main.ts: startDate / endDate of the fixed window
FixedStartDate == 1
FixedEndDate == 3
\* part_000: new Date() at the time the repository is processed
Now == 3
\* created_at of the repository as answered by the metadata endpoint
RepoCreatedAts == {1}

\* values of the fields of the records the API serves
CreatedAts == {0, 1, 2, 3, 4}
MergedAts == {None, Some(4)}
RepoNames == {None, Some("fork")}
\* submitted_at of the reviews of one pull request, as listed
ReviewLists == {<< >>, <<3, 2>>}
Statuses == {200, 404, 500}
Samples == {-1, 0, 1, 2}

(***************************************************************************)
(* Pure helpers.                                                           *)
(***************************************************************************)
\* Response.ok: status in the range 200-299
IsOk(status) == status >= 200 /\ status <= 299

\* variant: no status is told apart from the other failures
IsNotFound_Never(status) == FALSE

\* status === 404
IsNotFound(status) == status = 404

\* Date.getTime(): milliseconds
getTime(d) == d * 1000

\* (a.getTime() - b.getTime()) / 1000
Seconds(a, b) == (getTime(a) - getTime(b)) \div 1000

\* variant: the two ends of the window excluded
InWindow_Exclusive(createdAt, s, e) == createdAt > s /\ createdAt < e

\* createdAt >= startDate && createdAt <= endDate
InWindow(createdAt, s, e) == createdAt >= s /\ createdAt <= e

\* URLs
PullsUrl(repo, page) == [kind |-> "pulls", repo |-> repo, page |-> page]
ReviewUrl(repoName, number) == [kind |-> "reviews", repo |-> repoName, number |-> number]
RepoUrl(repo) == [kind |-> "repo", repo |-> repo]

(***************************************************************************)
(* The Link header is a comma separated list of entries                    *)
(*   <target>SEP rel="REL"                                                 *)
(* modelled as a sequence of records [target, sep, rel]; target None is    *)
(* the empty target "<>".  A response without the header has link None.    *)
(***************************************************************************)
LinkEntry(t, s, r) == [target |-> t, sep |-> s, rel |-> r]

\* linkHeader.includes('rel="next"')
IncludesRelNext(linkHeader) ==
    \E i \in 1..Len(linkHeader) : linkHeader[i].rel = "next"

\* variant: a pattern that accepts any separator before rel="next"
MatchPositions_AnySeparator(linkHeader) ==
    {i \in 1..Len(linkHeader) :
        /\ linkHeader[i].target # None
        /\ linkHeader[i].rel = "next"}

\* the entries the pattern /<([^>]+)>; rel="next"/ matches
MatchPositions(linkHeader) ==
    {i \in 1..Len(linkHeader) :
        /\ linkHeader[i].target # None
        /\ linkHeader[i].sep = "; "
        /\ linkHeader[i].rel = "next"}

\* linkHeader.match(...): capture group 1 of the leftmost match, or None
MatchNext(linkHeader) ==
    IF MatchPositions(linkHeader) = {} THEN None
    ELSE linkHeader[CHOOSE i \in MatchPositions(linkHeader) :
                        \A j \in MatchPositions(linkHeader) : i <= j].target

\* variant: the target of the first entry, whatever its relation
NextUrl_FirstEntry(link) ==
    IF link # None /\ IncludesRelNext(Get(link))
    THEN Get(link)[1].target
    ELSE None

\* the value of url after a page: lines 39-45
NextUrl(link) ==
    IF link # None /\ IncludesRelNext(Get(link))
    THEN MatchNext(Get(link))
    ELSE None

(***************************************************************************)
(* calculateAverageTime.  Numbers are exact rationals [num, den], den > 0, *)
(* in lowest terms.                                                        *)
(***************************************************************************)
Abs(x) == IF x < 0 THEN -x ELSE x

RECURSIVE Gcd(_, _)
Gcd(a, b) == IF b = 0 THEN a ELSE Gcd(b, a % b)

\* the number n / d
Rat(n, d) ==
    LET g == Gcd(Abs(n), Abs(d))
    IN  IF n = 0 THEN [num |-> 0, den |-> 1]
        ELSE [num |-> n \div g, den |-> d \div g]

\* variant: the accumulator is overwritten instead of added to
RECURSIVE Reduce_Overwrite(_, _)
Reduce_Overwrite(list, acc) ==
    IF list = << >> THEN acc ELSE Reduce_Overwrite(Tail(list), Head(list))

\* timeList.reduce((acc, time) => acc + time, 0)
RECURSIVE Reduce(_, _)
Reduce(list, acc) ==
    IF list = << >> THEN acc ELSE Reduce(Tail(list), acc + Head(list))

calculateAverageTime(list) ==
    IF Len(list) = 0 THEN Rat(0, 1)
    ELSE Rat(Reduce(list, 0), Len(list))

\* avg / 3600 (hours)
Hours(avg) == Rat(avg.num, avg.den * 3600)



(***************************************************************************)
(* The environment: what the GitHub API may answer.                        *)
(***************************************************************************)
Exchange(u, status, body, link) ==
    [req |-> u, status |-> status, body |-> body, link |-> link]

\* pull requests the API may put at position n of a listing: complete ones
\* created at any time, and every combination of missing fields for one
\* created inside both windows
PullRequests(n) ==
    [number : {n}, created_at : CreatedAts, merged_at : {Some(4)},
     head : {Some("fork")}]
    \cup [number : {n}, created_at : {2}, merged_at : MergedAts, head : RepoNames]

\* bodies of a listing page that follows n records: at most two records,
\* and at most MaxPRs records in one run
Bodies(n) ==
    {<< >>}
    \cup (IF served + 1 <= MaxPRs
          THEN {<<p>> : p \in PullRequests(n + 1)} ELSE {})
    \cup (IF served + 2 <= MaxPRs
          THEN {<<p, q>> : p \in PullRequests(n + 1), q \in PullRequests(n + 2)}
          ELSE {})

\* Link headers of a listing page requested at u with body b: none, one
\* without a next relation, two malformed next relations (no space after the
\* semicolon, an empty target), and (only on a page that carries records,
\* which bounds the loop by MaxPRs) a well-formed one
LinkHeaders(u, b) ==
    LET next == Some(PullsUrl(u.repo, u.page + 1))
        prev == LinkEntry(Some(PullsUrl(u.repo, 1)), "; ", "prev")
    IN  {None, Some(<<prev>>),
         Some(<<prev, LinkEntry(next, ";", "next")>>),
         Some(<<LinkEntry(None, "; ", "next")>>)}
        \cup (IF b # << >>
              THEN {Some(<<prev, LinkEntry(next, "; ", "next")>>)}
              ELSE {})

PullsResponses(u, n) ==
    {Exchange(u, s, << >>, None) : s \in Statuses \ {200}}
    \cup UNION {{Exchange(u, 200, b, l) : l \in LinkHeaders(u, b)} : b \in Bodies(n)}

ReviewsResponses(u) ==
    {Exchange(u, s, << >>, None) : s \in Statuses \ {200}}
    \cup {Exchange(u, 200, r, None) : r \in ReviewLists}

RepoResponses(u) ==
    {Exchange(u, s, << >>, None) : s \in Statuses \ {200}}
    \cup {Exchange(u, 200, <<c>>, None) : c \in RepoCreatedAts}

(***************************************************************************)
(* Initial state.                                                          *)
(***************************************************************************)
Init ==
    /\ variant \in {"lifetime", "fixed"}
    /\ token \in BOOLEAN
    /\ pc = "start"
    /\ repoIdx = 1
    /\ url = None
    /\ allPullRequests = << >>
    /\ prIdx = 1
    /\ reviewTimes = << >>
    /\ mergeTimes = << >>
    /\ reviewCycleTimes = << >>
    /\ startDate = 0
    /\ endDate = 0
    /\ mainPullRequests = << >>
    /\ detailedMetrics = << >>
    /\ reviewResponse = None
    /\ requests = 0
    /\ pages = << >>
    /\ served = 0
    /\ logs = << >>
    /\ errors = << >>
    /\ printed = << >>
    /\ exitCode = None
    /\ timeList = << >>
    /\ avgResult = None

avgVars == <<timeList, avgResult>>
metricVars == <<reviewTimes, mergeTimes, reviewCycleTimes>>
mainVars == <<mainPullRequests, detailedMetrics>>
dateVars == <<startDate, endDate>>

\* variant: the error is logged where it occurs and the loop goes on
Caught_Swallow(message, status) ==
    /\ errors' = Append(errors, [msg |-> message, status |-> status])
    /\ UNCHANGED <<pc, exitCode>>

\* throw new Error(`HTTP error! status: ...`) and, in main,
\* catch (error) { console.error('An error occurred:', error) }; the script
\* then ends normally
Caught(message, status) ==
    /\ errors' = Append(errors, [msg |-> message, status |-> status])
    /\ pc' = "done"
    /\ exitCode' = Some(0)

\* main returns normally
Finished ==
    /\ pc' = "done"
    /\ exitCode' = Some(0)

(***************************************************************************)
(* main, up to the try block (both scripts).                               *)
(***************************************************************************)
\* variant: the check of the token is missing
TokenMissing_Never(t) == FALSE

TokenMissing(t) == ~t

CheckToken ==
    /\ pc = "start"
    /\ IF TokenMissing(token)
       THEN /\ errors' = Append(errors, [msg |-> "GITHUB_TOKEN environment variable not set",
                                         status |-> 0])
            /\ exitCode' = Some(1)
            /\ pc' = "exited"
            /\ UNCHANGED <<url, dateVars>>
       ELSE /\ pc' = IF variant = "lifetime" THEN "repo_loop" ELSE "list_loop"
            /\ IF variant = "fixed"
               THEN /\ startDate' = FixedStartDate
                    /\ endDate' = FixedEndDate
                    /\ url' = Some(PullsUrl(repositories[1], 1))
               ELSE UNCHANGED <<url, dateVars>>
            /\ UNCHANGED <<errors, exitCode>>
    /\ UNCHANGED <<variant, token, repoIdx, allPullRequests, prIdx, metricVars,
                   mainVars, reviewResponse, requests, pages, served, logs,
                   printed, avgVars>>

(***************************************************************************)
(* getGitHubPrMetrics (both scripts; reviewCycleTimes only in part_000).   *)
(***************************************************************************)
\* entry: lines 28-29
CallGetGitHubPrMetrics(repo) ==
    /\ url' = Some(PullsUrl(repo, 1))
    /\ allPullRequests' = << >>
    /\ pages' = << >>
    /\ pc' = "paginate"

\* one iteration of while (url): lines 31-46
FetchPage ==
    /\ pc = "paginate"
    /\ \E x \in PullsResponses(Get(url), Len(allPullRequests)) :
        /\ requests' = requests + 1
        /\ pages' = Append(pages, x)
        /\ served' = served + Len(x.body)
        /\ IF ~IsOk(x.status)
           THEN /\ Caught("HTTP error! status", x.status)
                /\ UNCHANGED <<url, allPullRequests>>
           ELSE /\ allPullRequests' = allPullRequests \o x.body
                /\ url' = NextUrl(x.link)
                /\ pc' = IF url' = None THEN "paginated" ELSE "paginate"
                /\ UNCHANGED <<errors, exitCode>>
    /\ UNCHANGED <<variant, token, repoIdx, prIdx, metricVars, dateVars, mainVars,
                   reviewResponse, logs, printed, avgVars>>

\* the loop has ended: the three lists are created, lines 48-50
BeginPullRequestLoop ==
    /\ pc = "paginated"
    /\ reviewTimes' = << >>
    /\ mergeTimes' = << >>
    /\ reviewCycleTimes' = << >>
    /\ prIdx' = 1
    /\ pages' = << >>
    /\ pc' = "pr_loop"
    /\ UNCHANGED <<variant, token, repoIdx, url, allPullRequests, dateVars,
                   mainVars, reviewResponse, requests, served, logs, errors,
                   printed, exitCode, avgVars>>

\* mergeTimes after lines 57-59
WithMergeTime(list, pr) ==
    IF pr.merged_at # None
    THEN Append(list, Seconds(Get(pr.merged_at), pr.created_at))
    ELSE list

\* variant: new Date(pr.merged_at) without the null test; new Date(null) is
\* the epoch
WithReviewCycleTime_Epoch(list, pr, firstReviewTime) ==
    Append(list, Seconds(IF pr.merged_at # None THEN Get(pr.merged_at) ELSE 0,
                         firstReviewTime))

\* reviewCycleTimes after lines 83-85 (part_000 only)
WithReviewCycleTime(list, pr, firstReviewTime) ==
    IF pr.merged_at # None
    THEN Append(list, Seconds(Get(pr.merged_at), firstReviewTime))
    ELSE list

\* a pull request outside the window: the body of the if at line 56 is skipped
SkipPullRequest ==
    /\ pc = "pr_loop"
    /\ prIdx <= Len(allPullRequests)
    /\ ~InWindow(allPullRequests[prIdx].created_at, startDate, endDate)
    /\ prIdx' = prIdx + 1
    /\ reviewResponse' = None
    /\ UNCHANGED <<variant, token, pc, repoIdx, url, allPullRequests, metricVars,
                   dateVars, mainVars, requests, pages, served, logs, errors,
                   printed, exitCode, avgVars>>

\* !repoName
RepoNameMissing(pr) == pr.head = None

\* variant: the repository name is tested before the merge time is pushed
MissingRepoName_BeforeMerge ==
    /\ pc = "pr_loop"
    /\ prIdx <= Len(allPullRequests)
    /\ LET pr == allPullRequests[prIdx]
       IN  /\ InWindow(pr.created_at, startDate, endDate)
           /\ pr.head = None
           /\ logs' = Append(logs, [msg |-> "Repo name not found. Skipping reviews.",
                                    number |-> pr.number])
    /\ prIdx' = prIdx + 1
    /\ reviewResponse' = None
    /\ UNCHANGED <<variant, token, pc, repoIdx, url, allPullRequests, metricVars,
                   dateVars, mainVars, requests, pages, served, errors, printed,
                   exitCode, avgVars>>

\* lines 60-64: the warning and continue
MissingRepoName ==
    /\ pc = "pr_loop"
    /\ prIdx <= Len(allPullRequests)
    /\ LET pr == allPullRequests[prIdx]
       IN  /\ InWindow(pr.created_at, startDate, endDate)
           /\ RepoNameMissing(pr)
           /\ mergeTimes' = WithMergeTime(mergeTimes, pr)
           /\ logs' = Append(logs, [msg |-> "Repo name not found. Skipping reviews.",
                                    number |-> pr.number])
    /\ prIdx' = prIdx + 1
    /\ reviewResponse' = None
    /\ UNCHANGED <<variant, token, pc, repoIdx, url, allPullRequests, reviewTimes,
                   reviewCycleTimes, dateVars, mainVars, requests, pages, served,
                   errors, printed, exitCode, avgVars>>

\* lines 65-86: the review request and what follows it
FetchReviews ==
    /\ pc = "pr_loop"
    /\ prIdx <= Len(allPullRequests)
    /\ LET pr == allPullRequests[prIdx]
       IN  /\ InWindow(pr.created_at, startDate, endDate)
           /\ ~RepoNameMissing(pr)
           /\ \E x \in ReviewsResponses(ReviewUrl(Get(pr.head), pr.number)) :
                /\ requests' = requests + 1
                /\ reviewResponse' = Some(x)
                /\ mergeTimes' = WithMergeTime(mergeTimes, pr)
                /\ IF ~IsOk(x.status)
                   THEN IF IsNotFound(x.status)
                        THEN /\ logs' = Append(logs, [msg |-> "Review not found",
                                                      number |-> pr.number])
                             /\ prIdx' = prIdx + 1
                             /\ UNCHANGED <<pc, reviewTimes, reviewCycleTimes,
                                            errors, exitCode>>
                        ELSE /\ Caught("HTTP error! status", x.status)
                             /\ UNCHANGED <<prIdx, reviewTimes, reviewCycleTimes, logs>>
                   ELSE /\ IF Len(x.body) > 0
                           THEN /\ reviewTimes' =
                                      Append(reviewTimes, Seconds(x.body[1], pr.created_at))
                                /\ reviewCycleTimes' =
                                      IF variant = "lifetime"
                                      THEN WithReviewCycleTime(reviewCycleTimes, pr,
                                                               x.body[1])
                                      ELSE reviewCycleTimes
                           ELSE UNCHANGED <<reviewTimes, reviewCycleTimes>>
                        /\ prIdx' = prIdx + 1
                        /\ UNCHANGED <<pc, logs, errors, exitCode>>
    /\ UNCHANGED <<variant, token, repoIdx, url, allPullRequests, dateVars,
                   mainVars, pages, served, printed, avgVars>>

\* return [reviewTimes, mergeTimes, reviewCycleTimes] and the caller's code
\* up to its next request: part_000 lines 140-153, main.ts lines 200-205
ReturnMetrics ==
    /\ pc = "pr_loop"
    /\ prIdx > Len(allPullRequests)
    /\ IF variant = "lifetime"
       THEN /\ pc' = "repo_loop"
            /\ IF Len(reviewTimes) = 0 /\ Len(mergeTimes) = 0 /\ Len(reviewCycleTimes) = 0
               THEN /\ logs' = Append(logs, [msg |-> "No pull requests found within the specified lifetime",
                                             number |-> repoIdx])
                    /\ UNCHANGED printed
               ELSE /\ printed' = Append(printed,
                          [repo |-> repositories[repoIdx],
                           review |-> Hours(calculateAverageTime(reviewTimes)),
                           merge |-> Hours(calculateAverageTime(mergeTimes)),
                           cycle |-> Hours(calculateAverageTime(reviewCycleTimes))])
                    /\ UNCHANGED logs
       ELSE /\ pc' = "avg_loop"
            /\ printed' = Append(printed,
                  [repo |-> repositories[repoIdx],
                   review |-> Hours(calculateAverageTime(reviewTimes)),
                   merge |-> Hours(calculateAverageTime(mergeTimes))])
            /\ UNCHANGED logs
    /\ repoIdx' = repoIdx + 1
    /\ reviewResponse' = None
    /\ UNCHANGED <<variant, token, url, allPullRequests, prIdx, metricVars, dateVars,
                   mainVars, requests, pages, served, errors, exitCode, avgVars>>

(***************************************************************************)
(* main of part_000: one repository after the other, lines 118-153.        *)
(***************************************************************************)
RepoDetails ==
    /\ pc = "repo_loop"
    /\ repoIdx <= Len(repositories)
    /\ \E x \in RepoResponses(RepoUrl(repositories[repoIdx])) :
        /\ requests' = requests + 1
        /\ IF ~IsOk(x.status)
           THEN IF IsNotFound(x.status)
                THEN /\ logs' = Append(logs, [msg |-> "Repository not found. Skipping.",
                                              number |-> repoIdx])
                     /\ repoIdx' = repoIdx + 1
                     /\ UNCHANGED <<pc, url, allPullRequests, pages, dateVars,
                                    errors, exitCode>>
                ELSE /\ Caught("HTTP error fetching repo details! status", x.status)
                     /\ UNCHANGED <<repoIdx, url, allPullRequests, pages, dateVars,
                                    logs>>
           ELSE /\ startDate' = x.body[1]
                /\ endDate' = Now
                /\ CallGetGitHubPrMetrics(repositories[repoIdx])
                /\ UNCHANGED <<repoIdx, logs, errors, exitCode>>
    /\ UNCHANGED <<variant, token, prIdx, metricVars, mainVars, reviewResponse,
                   served, printed, avgVars>>

\* the for loop of main is exhausted and main returns
RepoLoopDone ==
    /\ pc = "repo_loop"
    /\ repoIdx > Len(repositories)
    /\ Finished
    /\ UNCHANGED <<variant, token, repoIdx, url, allPullRequests, prIdx, metricVars,
                   dateVars, mainVars, reviewResponse, requests, pages, served,
                   logs, errors, printed, avgVars>>

(***************************************************************************)
(* main of main.ts.                                                        *)
(***************************************************************************)
\* one iteration of while (url) in main: lines 119-139
MainFetchPage ==
    /\ pc = "list_loop"
    /\ \E x \in PullsResponses(Get(url), Len(mainPullRequests)) :
        /\ requests' = requests + 1
        /\ pages' = Append(pages, x)
        /\ served' = served + Len(x.body)
        /\ IF ~IsOk(x.status)
           THEN IF IsNotFound(x.status)
                THEN /\ logs' = Append(logs, [msg |-> "Repository not found",
                                              number |-> repoIdx])
                     /\ pc' = "listed"
                     /\ UNCHANGED <<url, mainPullRequests, errors, exitCode>>
                ELSE /\ Caught("HTTP error! status", x.status)
                     /\ UNCHANGED <<url, mainPullRequests, logs>>
           ELSE /\ mainPullRequests' = mainPullRequests \o x.body
                /\ url' = NextUrl(x.link)
                /\ pc' = IF url' = None THEN "listed" ELSE "list_loop"
                /\ UNCHANGED <<logs, errors, exitCode>>
    /\ UNCHANGED <<variant, token, repoIdx, allPullRequests, prIdx, metricVars,
                   dateVars, detailedMetrics, reviewResponse, printed, avgVars>>

\* the while loop has ended for repositories[repoIdx]: line 118 for the next
\* repository, or lines 142-147 after the last one
NextRepository ==
    /\ pc = "listed"
    /\ pages' = << >>
    /\ IF repoIdx < Len(repositories)
       THEN /\ repoIdx' = repoIdx + 1
            /\ url' = Some(PullsUrl(repositories[repoIdx + 1], 1))
            /\ pc' = "list_loop"
            /\ UNCHANGED <<prIdx, detailedMetrics, logs, exitCode>>
       ELSE /\ UNCHANGED <<repoIdx, url>>
            /\ IF Len(mainPullRequests) = 0
               THEN /\ logs' = Append(logs, [msg |-> "No pull requests found. Exiting.",
                                             number |-> 0])
                    /\ Finished
                    /\ UNCHANGED <<prIdx, detailedMetrics>>
               ELSE /\ detailedMetrics' = << >>
                    /\ prIdx' = 1
                    /\ pc' = "main_pr_loop"
                    /\ UNCHANGED <<logs, exitCode>>
    /\ UNCHANGED <<variant, token, allPullRequests, metricVars, dateVars,
                   mainPullRequests, reviewResponse, requests, served, errors,
                   printed, avgVars>>

\* mergeTime of lines 156-160: null or the seconds from creation to merge
MergeTime(pr) ==
    IF pr.merged_at # None
    THEN Some(Seconds(Get(pr.merged_at), pr.created_at))
    ELSE None

\* lines 150-154 for a pull request outside the window
MainSkipPullRequest ==
    /\ pc = "main_pr_loop"
    /\ prIdx <= Len(mainPullRequests)
    /\ ~InWindow(mainPullRequests[prIdx].created_at, startDate, endDate)
    /\ prIdx' = prIdx + 1
    /\ reviewResponse' = None
    /\ UNCHANGED <<variant, token, pc, repoIdx, url, allPullRequests, metricVars,
                   dateVars, mainVars, requests, pages, served, logs, errors,
                   printed, exitCode, avgVars>>

\* lines 161-166
MainMissingRepoName ==
    /\ pc = "main_pr_loop"
    /\ prIdx <= Len(mainPullRequests)
    /\ LET pr == mainPullRequests[prIdx]
       IN  /\ InWindow(pr.created_at, startDate, endDate)
           /\ RepoNameMissing(pr)
           /\ logs' = Append(logs, [msg |-> "Repo name not found. Skipping detailed metrics.",
                                    number |-> pr.number])
           /\ detailedMetrics' = Append(detailedMetrics,
                  [prNumber |-> pr.number, reviewTime |-> None,
                   mergeTime |-> MergeTime(pr), repo |-> "N/A"])
    /\ prIdx' = prIdx + 1
    /\ reviewResponse' = None
    /\ UNCHANGED <<variant, token, pc, repoIdx, url, allPullRequests, metricVars,
                   dateVars, mainPullRequests, requests, pages, served, errors,
                   printed, exitCode, avgVars>>

\* lines 167-185
MainFetchReviews ==
    /\ pc = "main_pr_loop"
    /\ prIdx <= Len(mainPullRequests)
    /\ LET pr == mainPullRequests[prIdx]
       IN  /\ InWindow(pr.created_at, startDate, endDate)
           /\ ~RepoNameMissing(pr)
           /\ \E x \in ReviewsResponses(ReviewUrl(Get(pr.head), pr.number)) :
                /\ requests' = requests + 1
                /\ reviewResponse' = Some(x)
                /\ IF ~IsOk(x.status)
                   THEN IF IsNotFound(x.status)
                        THEN /\ logs' = Append(logs, [msg |-> "Review not found",
                                                      number |-> pr.number])
                             /\ prIdx' = prIdx + 1
                             /\ UNCHANGED <<pc, detailedMetrics, errors, exitCode>>
                        ELSE /\ Caught("HTTP error! status", x.status)
                             /\ UNCHANGED <<prIdx, detailedMetrics, logs>>
                   ELSE /\ detailedMetrics' = Append(detailedMetrics,
                               [prNumber |-> pr.number,
                                reviewTime |-> IF Len(x.body) > 0
                                               THEN Some(Seconds(x.body[1], pr.created_at))
                                               ELSE None,
                                mergeTime |-> MergeTime(pr),
                                repo |-> Get(pr.head)])
                        /\ prIdx' = prIdx + 1
                        /\ UNCHANGED <<pc, logs, errors, exitCode>>
    /\ UNCHANGED <<variant, token, repoIdx, url, allPullRequests, metricVars,
                   dateVars, mainPullRequests, pages, served, printed, avgVars>>

\* the loop over the pull requests is exhausted: line 198, first repository
StartAverages ==
    /\ pc = "main_pr_loop"
    /\ prIdx > Len(mainPullRequests)
    /\ repoIdx' = 1
    /\ reviewResponse' = None
    /\ pc' = "avg_loop"
    /\ UNCHANGED <<variant, token, url, allPullRequests, prIdx, metricVars, dateVars,
                   mainVars, requests, pages, served, logs, errors, printed,
                   exitCode, avgVars>>

\* lines 198-199: the next call of getGitHubPrMetrics, or the end of main
NextAverage ==
    /\ pc = "avg_loop"
    /\ IF repoIdx <= Len(repositories)
       THEN /\ CallGetGitHubPrMetrics(repositories[repoIdx])
            /\ UNCHANGED exitCode
       ELSE /\ Finished
            /\ UNCHANGED <<url, allPullRequests, pages>>
    /\ UNCHANGED <<variant, token, repoIdx, prIdx, metricVars, dateVars, mainVars,
                   reviewResponse, requests, served, logs, errors, printed, avgVars>>

Next ==
    \/ CheckToken
    \/ FetchPage
    \/ BeginPullRequestLoop
    \/ SkipPullRequest
    \/ MissingRepoName
    \/ FetchReviews
    \/ ReturnMetrics
    \/ RepoDetails
    \/ RepoLoopDone
    \/ MainFetchPage
    \/ NextRepository
    \/ MainSkipPullRequest
    \/ MainMissingRepoName
    \/ MainFetchReviews
    \/ StartAverages
    \/ NextAverage

Spec == Init /\ [][Next]_vars

(***************************************************************************)
(* calculateAverageTime on its own: every list over Samples of length at   *)
(* most MaxLen.                                                            *)
(***************************************************************************)
RECURSIVE Lists(_)
Lists(n) ==
    IF n = 0 THEN {<< >>}
    ELSE Lists(n - 1) \cup {Append(l, x) : l \in {m \in Lists(n - 1) : Len(m) = n - 1},
                                            x \in Samples}

InitAvg ==
    /\ variant = "lifetime"
    /\ token = TRUE
    /\ pc = "average"
    /\ repoIdx = 1
    /\ url = None
    /\ allPullRequests = << >>
    /\ prIdx = 1
    /\ reviewTimes = << >>
    /\ mergeTimes = << >>
    /\ reviewCycleTimes = << >>
    /\ startDate = 0
    /\ endDate = 0
    /\ mainPullRequests = << >>
    /\ detailedMetrics = << >>
    /\ reviewResponse = None
    /\ requests = 0
    /\ pages = << >>
    /\ served = 0
    /\ logs = << >>
    /\ errors = << >>
    /\ printed = << >>
    /\ exitCode = None
    /\ timeList \in Lists(MaxLen)
    /\ avgResult = None

Average ==
    /\ pc = "average"
    /\ avgResult = None
    /\ avgResult' = Some(calculateAverageTime(timeList))
    /\ UNCHANGED <<variant, token, pc, repoIdx, url, allPullRequests, prIdx,
                   metricVars, dateVars, mainVars, reviewResponse, requests, pages,
                   served, logs, errors, printed, exitCode, timeList>>

NextAvg == Average

SpecAvg == InitAvg /\ [][NextAvg]_vars


(***************************************************************************)
(* Properties.                                                             *)
(***************************************************************************)
Last(q) == q[Len(q)]

\* the records of a sequence of pages, in page order
RECURSIVE Records(_)
Records(ps) ==
    IF ps = << >> THEN << >> ELSE Head(ps).body \o Records(Tail(ps))

\* the URLs a Link header names with a well-formed rel="next" entry
NextTargets(link) ==
    IF link = None THEN {}
    ELSE {Get(Get(link)[i].target) :
            i \in {j \in 1..Len(Get(link)) :
                     /\ Get(link)[j].rel = "next"
                     /\ Get(link)[j].sep = "; "
                     /\ Get(link)[j].target # None}}

\* the header mentions rel="next"
MentionsNext(link) ==
    link # None /\ \E i \in 1..Len(Get(link)) : Get(link)[i].rel = "next"

\* successful pages, all but the last with a well-formed next link, the last
\* with no next link at all
ChainOfPages(ps) ==
    /\ ps # << >>
    /\ \A i \in 1..Len(ps) : ps[i].status = 200
    /\ \A i \in 1..(Len(ps) - 1) : NextTargets(ps[i].link) # {}
    /\ ~MentionsNext(Last(ps).link)

\* C1: in getGitHubPrMetrics the first listing request goes to the
\* repository's closed-pulls URL and every later one to the URL the previous
\* page's next link names; the loop goes on after a page with a well-formed
\* next link and never ends on one; and once it has ended on a chain of N
\* pages (N-1 with a well-formed next link, the last with none) it has issued
\* exactly the N requests recorded in pages and allPullRequests is the
\* concatenation of the N bodies in page order.
C1_Pagination ==
    (pc \in {"paginate", "paginated"} /\ pages # << >>) =>
        /\ pages[1].req = PullsUrl(repositories[repoIdx], 1)
        /\ \A i \in 1..(Len(pages) - 1) : pages[i + 1].req \in NextTargets(pages[i].link)
        /\ pc = "paginate" =>
              /\ url # None
              /\ Get(url) \in NextTargets(Last(pages).link)
        /\ pc = "paginated" => NextTargets(Last(pages).link) = {}
        /\ (pc = "paginated" /\ ChainOfPages(pages)) =>
              /\ url = None
              /\ allPullRequests = Records(pages)

\* three pages, the first two with one record and a next link
C1_Witness ==
    /\ pc = "paginated"
    /\ ChainOfPages(pages)
    /\ Len(pages) = 3
    /\ Len(allPullRequests) = 2

\* C2: in main.ts, while the script is at a repository whose listing was
\* answered 404 in the loop of main (and logged there), no error with status
\* 404 has reached the handler.
C2_NotFoundTolerated ==
    (/\ variant = "fixed"
     /\ \E i \in 1..Len(logs) :
           logs[i] = [msg |-> "Repository not found", number |-> repoIdx]) =>
        \A j \in 1..Len(errors) : errors[j].status # 404

\* a listing or review response with a non-success status other than 404
FatalStatus(status) == ~(status >= 200 /\ status <= 299) /\ status # 404

FatalResponse ==
    \/ pages # << >> /\ FatalStatus(Last(pages).status)
    \/ reviewResponse # None /\ FatalStatus(Get(reviewResponse).status)

PrintedRepositories == {printed[i].repo : i \in 1..Len(printed)}

\* C3: once a listing or review request has received a non-success status
\* other than 404 the script has ended: the handler of main has logged
\* exactly one error, nothing is printed for the current or a later
\* repository, and no step issues a request, prints or logs an error.
C3_FatalStatusAborts ==
    /\ [](FatalResponse =>
            /\ pc = "done"
            /\ Len(errors) = 1
            /\ FatalStatus(errors[1].status)
            /\ \A k \in repoIdx..Len(repositories) :
                  repositories[k] \notin PrintedRepositories)
    /\ [][FatalResponse => UNCHANGED <<requests, printed, errors>>]_vars

\* a review request fails after the first repository has been printed
C3_Witness ==
    /\ reviewResponse # None
    /\ FatalStatus(Get(reviewResponse).status)
    /\ pc = "done"
    /\ Len(printed) = 1
    /\ repoIdx = 2

\* the merge sample of a pull request, if it has one
MergeSample(pr) ==
    IF pr.merged_at = None THEN << >> ELSE <<Get(pr.merged_at) - pr.created_at>>

\* the step is an iteration of the loop of getGitHubPrMetrics whose review
\* request is answered with status st
ReviewStep(st) ==
    /\ pc = "pr_loop"
    /\ prIdx <= Len(allPullRequests)
    /\ reviewResponse' # None
    /\ Get(reviewResponse').status = st

\* C4: an iteration whose review request is answered 404 adds nothing to
\* reviewTimes and reviewCycleTimes, keeps the merge sample, raises no error
\* and goes on to the next pull request with the listing and the window
\* untouched; and an iteration answered with reviews adds its review sample
\* whatever happened before.
C4_ReviewNotFound ==
    [][/\ ReviewStep(404) =>
            /\ reviewTimes' = reviewTimes
            /\ reviewCycleTimes' = reviewCycleTimes
            /\ mergeTimes' = mergeTimes \o MergeSample(allPullRequests[prIdx])
            /\ pc' = "pr_loop"
            /\ prIdx' = prIdx + 1
            /\ UNCHANGED <<allPullRequests, startDate, endDate, errors, exitCode>>
       /\ (ReviewStep(200) /\ Get(reviewResponse').body # << >>) =>
            reviewTimes' = Append(reviewTimes,
                Get(reviewResponse').body[1] - allPullRequests[prIdx].created_at)
      ]_vars

\* the first pull request got 404, the second one its review sample
C4_Witness ==
    /\ pc = "pr_loop"
    /\ prIdx = 3
    /\ \E i \in 1..Len(logs) :
          logs[i] = [msg |-> "Review not found", number |-> allPullRequests[1].number]
    /\ allPullRequests[1].merged_at # None
    /\ Len(mergeTimes) = 2
    /\ Len(reviewTimes) = 1
    /\ reviewResponse # None
    /\ Get(reviewResponse).status = 200

\* C5: without GITHUB_TOKEN no request is ever issued, and the script ends
\* in its first step with the error reported and exit code 1.
C5_NoToken ==
    ~token =>
        /\ requests = 0
        /\ pc \in {"start", "exited"}
        /\ pc = "exited" =>
              /\ exitCode = Some(1)
              /\ Len(errors) = 1
              /\ errors[1].msg = "GITHUB_TOKEN environment variable not set"

C5_Witness ==
    /\ ~token
    /\ pc = "exited"
    /\ exitCode = Some(1)

\* createdAt within [startDate, endDate], both ends included
Within(pr) == startDate <= pr.created_at /\ pr.created_at <= endDate

\* C6: the iteration of getGitHubPrMetrics for a pull request in the window
\* without head.repo.name adds the merge sample (if merged) and nothing to
\* reviewTimes and reviewCycleTimes, issues no request and logs exactly one
\* line, the warning for that pull request.
C6_MissingRepoName ==
    [][(/\ pc = "pr_loop"
        /\ prIdx <= Len(allPullRequests)
        /\ Within(allPullRequests[prIdx])
        /\ allPullRequests[prIdx].head = None) =>
            /\ mergeTimes' = mergeTimes \o MergeSample(allPullRequests[prIdx])
            /\ reviewTimes' = reviewTimes
            /\ reviewCycleTimes' = reviewCycleTimes
            /\ requests' = requests
            /\ logs' = Append(logs, [msg |-> "Repo name not found. Skipping reviews.",
                                     number |-> allPullRequests[prIdx].number])
            /\ UNCHANGED errors
      ]_vars

\* a merged pull request without repository name has just been handled
C6_Witness ==
    /\ pc = "pr_loop"
    /\ prIdx = 2
    /\ allPullRequests[1].head = None
    /\ allPullRequests[1].merged_at # None
    /\ Within(allPullRequests[1])
    /\ Len(mergeTimes) = 1
    /\ reviewTimes = << >>
    /\ logs # << >>
    /\ Last(logs).number = allPullRequests[1].number

\* C7: the iteration for a pull request created before startDate or after
\* endDate changes no list, issues no request and logs nothing; the one for
\* a pull request created within the window (the two ends included) adds its
\* merge sample if merged and either issues the review request or logs the
\* missing repository name.
C7_Window ==
    [][(pc = "pr_loop" /\ prIdx <= Len(allPullRequests)) =>
         IF Within(allPullRequests[prIdx])
         THEN /\ mergeTimes' = mergeTimes \o MergeSample(allPullRequests[prIdx])
              /\ IF allPullRequests[prIdx].head = None
                 THEN Len(logs') = Len(logs) + 1 /\ requests' = requests
                 ELSE requests' = requests + 1
         ELSE UNCHANGED <<reviewTimes, mergeTimes, reviewCycleTimes, requests,
                          logs, errors>>
      ]_vars

\* a pull request created exactly at endDate has contributed, a complete one
\* created after endDate has not
C7_Witness ==
    /\ pc = "pr_loop"
    /\ prIdx = 3
    /\ allPullRequests[1].created_at = endDate
    /\ allPullRequests[2].created_at > endDate
    /\ allPullRequests[2].merged_at # None
    /\ allPullRequests[2].head # None
    /\ Len(mergeTimes) = 1
    /\ Len(reviewTimes) = 1

\* C8: in part_000 the iteration for a pull request without merged_at adds
\* nothing to mergeTimes and reviewCycleTimes; when its review listing
\* succeeds with at least one review it adds one reviewTimes sample.
C8_Unmerged ==
    [][(/\ variant = "lifetime"
        /\ pc = "pr_loop"
        /\ prIdx <= Len(allPullRequests)
        /\ allPullRequests[prIdx].merged_at = None) =>
            /\ mergeTimes' = mergeTimes
            /\ reviewCycleTimes' = reviewCycleTimes
            /\ (ReviewStep(200) /\ Get(reviewResponse').body # << >>) =>
                  Len(reviewTimes') = Len(reviewTimes) + 1
      ]_vars

\* an unmerged pull request with reviews has just been handled
C8_Witness ==
    /\ variant = "lifetime"
    /\ pc = "pr_loop"
    /\ prIdx = 2
    /\ allPullRequests[1].merged_at = None
    /\ reviewResponse # None
    /\ Get(reviewResponse).status = 200
    /\ Get(reviewResponse).body # << >>
    /\ Len(reviewTimes) = 1
    /\ mergeTimes = << >>
    /\ reviewCycleTimes = << >>

\* s1 + ... + sn
RECURSIVE Sum(_)
Sum(list) ==
    IF list = << >> THEN 0 ELSE Sum(SubSeq(list, 1, Len(list) - 1)) + Last(list)

\* C9: calculateAverageTime returns 0 for the empty list and the number
\* (s1 + ... + sn) / n for the list [s1..sn].
C9_Average ==
    avgResult # None =>
        /\ Get(avgResult).den > 0
        /\ timeList = << >> => Get(avgResult).num = 0
        /\ timeList # << >> =>
              Get(avgResult).num * Len(timeList) = Sum(timeList) * Get(avgResult).den

\* a list of three samples with an average that is not an integer
C9_Witness ==
    /\ avgResult # None
    /\ Len(timeList) = 3
    /\ Get(avgResult).den = 3

\* the header mentions rel="next" but names no URL the pattern captures
Malformed(link) == MentionsNext(link) /\ NextTargets(link) = {}

\* C10: after a successful page whose Link header mentions rel="next"
\* without a well-formed entry the loop has ended (url is null, no request
\* follows in it), no error is raised, and the records read so far, that
\* page's included, are what the script goes on with.
C10_MalformedLink ==
    (/\ pages # << >>
     /\ Last(pages).status = 200
     /\ Malformed(Last(pages).link)) =>
        /\ pc \in {"paginated", "listed"}
        /\ url = None
        /\ errors = << >>
        /\ pc = "paginated" => allPullRequests = Records(pages)
        /\ pc = "listed" =>
              /\ Len(mainPullRequests) >= Len(Records(pages))
              /\ SubSeq(mainPullRequests,
                        Len(mainPullRequests) - Len(Records(pages)) + 1,
                        Len(mainPullRequests)) = Records(pages)

\* the second page of a listing carries the malformed header
C10_Witness ==
    /\ pc = "paginated"
    /\ Len(pages) = 2
    /\ Malformed(Last(pages).link)
    /\ Len(allPullRequests) = 2
    /\ errors = << >>

====
